---- MODULE Spec2Model ----
(***************************************************************************)
(* Model of the HKA account connector (Odoo addon hka_account_connector):  *)
(* the connector client with its cached token (services/hka_connector.py), *)
(* the persisted token record (models/hka_connector_config.py) and the     *)
(* send / download batch passes over invoices (models/account_move.py).    *)
(*                                                                         *)
(* A batch pass is a run; it blocks at every HTTP request, so a run is cut *)
(* into steps at the requests it issues: the step that issues a request    *)
(* and the step that receives its answer (or its failure).  A pass is one  *)
(* database transaction of the cron worker, so the operations of the user  *)
(* interface on invoices are serialised before or after it.                *)
(*                                                                         *)
(* The behaviours are explored for a few databases (scenarios): which      *)
(* invoices and companies exist, whether users reset invoices to draft,    *)
(* which of the two cron jobs are active, which runs execute and what the  *)
(* remote service may answer.  Spec, SpecDownload, SpecConcurrent,         *)
(* SpecSame and SpecRace explore different sets of scenarios with the same *)
(* actions; SpecLive adds the fairness of the scheduler and of the passes; *)
(* SpecPayload builds the payload of one invoice (_prepare_hka_payload).   *)
(***************************************************************************)
EXTENDS Integers, FiniteSets, Sequences, TLC

VARIABLES
    inv,    \* account.move records: the integration fields of every invoice
    att,    \* ir.attachment: number of stored attachments per invoice and type
    cfg,    \* the hka.connector.config singleton: persisted token and expiry
    now,    \* the clock (datetime.now())
    run,    \* the batch runs: position, connector (in-memory token), request in flight
    scn,    \* the scenario: the database and its users, fixed along a behaviour
    streak, \* history: per invoice, the remote rejections in a row since retry count 0
    last,   \* history: the pass that ended last, with the invoices as it left them
    move    \* the invoice whose payload is built, and the payloads built from it

vars == <<inv, att, cfg, now, run, scn, streak, last, move>>

(***************************************************************************)
(* Bounds of the model.                                                    *)
(***************************************************************************)
MaxTime == 1        \* the clock runs from 0 to MaxTime
RetryCap == 4       \* retry counts are followed up to here (an invoice at it is processed no more)
AttachCap == 2      \* at most this many attachments per invoice and type
TokenTTL == 1       \* lifetime the remote service gives a fresh token

(***************************************************************************)
(* Values.                                                                 *)
(***************************************************************************)
NoValue == "None"                   \* Python None / Odoo False for a Char or Text field
NoTime == -1                        \* an unset Datetime field
NoToken == <<NoValue, -1>>          \* an unset token
NoPass == [kind |-> NoValue]        \* no pass has ended since the invoices were last edited
NoMove == [name |-> NoValue]        \* no payload is being built
Companies == {"RUC_A", "RUC_B", "RUC_C"}    \* res.company records, named by their tax id (vat)
Invoices == {"F001-1", "F001-2", "BILL-1"}      \* account.move records, named by display name
Runs == {"run1", "run2"}
FileKinds == <<"XML", "PDF", "CDR">>            \* the order of _cron_download_documents
Numeraciones == {"01-F001-7", "01-F001-8"}      \* numeracion values the remote may answer
Mensajes == {"rechazado", NoValue}              \* mensaje values the remote may answer

\* the shapes of the answers of the Autenticacion endpoint: transport and
\* HTTP status, whether the token is there, whether fechaExpiracion is there
\* and parses
AuthShapes ==
    {[net |-> "fail", http |-> 200, token |-> "missing", fecha |-> "missing"],
     [net |-> "ok", http |-> 500, token |-> "missing", fecha |-> "missing"]}
    \cup {[net |-> "ok", http |-> 200, token |-> t, fecha |-> f] :
            t \in {"ok", "missing"}, f \in {"ok", "missing", "bad"}}

\* answers of the Enviar endpoint
SendResponses ==
    {[net |-> "fail", http |-> 200, estatus |-> "missing", mensaje |-> NoValue,
      numeracion |-> NoValue, xml |-> ""],
     [net |-> "ok", http |-> 500, estatus |-> "missing", mensaje |-> NoValue,
      numeracion |-> NoValue, xml |-> ""]}
    \cup {[net |-> "ok", http |-> 200, estatus |-> e, mensaje |-> msg,
           numeracion |-> NoValue, xml |-> ""] :
            e \in {"false", "missing"}, msg \in Mensajes}
    \cup {[net |-> "ok", http |-> 200, estatus |-> "true", mensaje |-> NoValue,
           numeracion |-> n, xml |-> x] :
            n \in Numeraciones, x \in {"", "base64", "not base64"}}

\* answers of the DescargaArchivo endpoint
DownloadResponses ==
    {[net |-> "fail", http |-> 200, codigo |-> 1, archivo |-> ""],
     [net |-> "ok", http |-> 500, codigo |-> 1, archivo |-> ""]}
    \cup {[net |-> "ok", http |-> 200, codigo |-> c, archivo |-> x] :
            c \in {0, 1}, x \in {"", "base64", "not base64"}}

\* a database with its users and cron jobs, in a world where the remote
\* service may answer anything and the invoice data may or may not let the
\* payload be built
Database(invs, comps, redraft, crons, runs) ==
    [invoices |-> invs, companies |-> comps, redraft |-> redraft, crons |-> crons,
     runs |-> runs, counts |-> "exact", payload |-> BOOLEAN, auth |-> AuthShapes,
     send |-> SendResponses,
     download |-> [k \in {"XML", "PDF", "CDR"} |-> DownloadResponses]]

\* the remote service accepts every document, and the payloads can be built
Accepting(db) ==
    [db EXCEPT !.payload = {TRUE},
               !.send = {resp \in SendResponses :
                            resp.estatus = "true" /\ resp.numeracion = "01-F001-7"
                            /\ resp.xml \in {"", "base64"}}]

\* in the world of the scenario everything outside the program is determined:
\* whether the payload can be built and how the remote service answers each
\* kind of request
Deterministic(sc) ==
    /\ Cardinality(sc.payload) = 1
    /\ Cardinality(sc.auth) = 1
    /\ Cardinality(sc.send) = 1
    /\ \A k \in {"XML", "PDF", "CDR"} : Cardinality(sc.download[k]) = 1

\* the database db in the world where payloads build iff p, and the remote
\* service answers a to every Autenticacion request, s to every Enviar request
\* and d[k] to every DescargaArchivo request for file kind k
Determined(db, p, a, s, d) ==
    [db EXCEPT !.payload = {p}, !.auth = {a}, !.send = {s},
               !.download = [k \in {"XML", "PDF", "CDR"} |-> {d[k]}]]

\* the scenarios explored
Scenarios ==
    {Database({"F001-1"}, {"RUC_A"}, TRUE, {"send", "download"}, {"run1"}),
     Database({"F001-1"}, {"RUC_A", "RUC_B"}, FALSE, {"send"}, {"run1"}),
     Database({"F001-1", "F001-2"}, {"RUC_A"}, FALSE, {"send"}, {"run1"}),
     Database({"F001-1", "BILL-1"}, {"RUC_A"}, FALSE, {"send"}, {"run1"}),
     Database({"F001-1"}, {"RUC_C"}, FALSE, {"send"}, {"run1"})}

\* the scenarios explored for the download pass: over one invoice that may
\* be sent again, and over two invoices of a service that accepts them
DownloadScenarios ==
    {Database({"F001-1"}, {"RUC_A"}, TRUE, {"send", "download"}, {"run1"}),
     Accepting(Database({"F001-1", "F001-2"}, {"RUC_A"}, FALSE, {"send", "download"},
                        {"run1"}))}

\* hka_user of the company: RUC_C has no HKA credentials configured
hka_user(c) == IF c = "RUC_C" THEN NoValue ELSE "user"

\* hka_password of the company
hka_password(c) == IF c = "RUC_C" THEN NoValue ELSE "secret"

\* the scenarios explored for overlapping runs: two cron workers run send
\* passes of the same company at the same time (next to a database with
\* one worker)
ConcurrentScenarios ==
    {Database({"F001-1"}, {"RUC_A"}, TRUE, {"send", "download"}, {"run1"}),
     Database({"F001-1"}, {"RUC_A"}, FALSE, {"send"}, {"run1", "run2"})}

\* the scenarios explored for passes that are run again: one invoice, in the
\* worlds where everything outside the program is determined
SameScenarios ==
    {Determined(Database({"F001-1"}, {"RUC_A"}, TRUE, {"send", "download"}, {"run1"}),
                p, a, s, d) :
        p \in BOOLEAN,
        a \in {sh \in AuthShapes : sh.http = 200 /\ sh.token = sh.fecha
                                     /\ sh.token \in {"ok", "missing"}},
        s \in {resp \in SendResponses :
                  /\ resp.http = 200
                  /\ resp.mensaje = (IF resp.estatus = "false" THEN "rechazado" ELSE NoValue)
                  /\ resp.numeracion \in {NoValue, "01-F001-7"}},
        d \in [{"XML", "PDF", "CDR"} ->
                  {resp \in DownloadResponses :
                      /\ resp.http = 200
                      /\ resp.archivo = (IF resp.codigo = 0 THEN "base64" ELSE "")}]}

\* the payloads can be built, authentication succeeds, and the remote service
\* accepts or rejects every document
Answering(db) ==
    [db EXCEPT !.payload = {TRUE},
               !.auth = {sh \in AuthShapes :
                            sh.net = "ok" /\ sh.http = 200 /\ sh.token = "ok"
                            /\ sh.fecha = "ok"},
               !.send = {resp \in SendResponses :
                            /\ resp.net = "ok"
                            /\ resp.http = 200
                            /\ resp.estatus \in {"true", "false"}
                            /\ resp.mensaje = (IF resp.estatus = "false" THEN "rechazado"
                                               ELSE NoValue)
                            /\ resp.numeracion \in {NoValue, "01-F001-7"}
                            /\ resp.xml = ""}]

\* the scenarios explored for overlapping runs of different companies: two
\* cron workers run send passes for two companies over the one shared token
\* record (next to a database with one worker)
RaceScenarios ==
    {Database({"F001-1"}, {"RUC_A"}, TRUE, {"send", "download"}, {"run1"}),
     Answering(Database({"F001-1"}, {"RUC_A", "RUC_B"}, FALSE, {"send"},
                        {"run1", "run2"}))}

\* the database db followed without end: the retry counts from RetryCap on
\* are told apart no more, and an invoice is processed whatever its count
Unbounded(db) == [db EXCEPT !.counts = "saturating"]

\* the scenarios explored for the progress of the send pass: one invoice
\* that stays posted, sent by one worker to a remote service that may answer
\* anything (next to the database whose users reset invoices to draft)
LiveScenarios ==
    {Database({"F001-1"}, {"RUC_A"}, TRUE, {"send", "download"}, {"run1"}),
     Unbounded(Database({"F001-1"}, {"RUC_A"}, FALSE, {"send"}, {"run1"}))}

\* move_type of the invoice
move_type(i) == IF i = "BILL-1" THEN "in_invoice" ELSE "out_invoice"

\* journal_id.type of the invoice
journal_type(i) == IF i = "BILL-1" THEN "purchase" ELSE "sale"

\* the fields of a new account.move (field defaults)
NewInvoice == [state |-> "draft", hka_status |-> NoValue, hka_cpe_number |-> NoValue,
               hka_sent_date |-> NoTime, hka_error_msg |-> NoValue, hka_retry_count |-> 0,
               hka_xml_file |-> FALSE, hka_pdf_file |-> FALSE, hka_cdr_file |-> FALSE]

\* the flag field of file kind k (the done_field of _cron_download_documents)
done_field(k) == IF k = "XML" THEN "hka_xml_file"
                 ELSE IF k = "PDF" THEN "hka_pdf_file" ELSE "hka_cdr_file"

\* a run that is not executing
IdleRun == [pc |-> "idle", kind |-> NoValue, ruc |-> NoValue, user |-> NoValue,
            password |-> NoValue, token |-> NoToken,
            token_expiry |-> NoTime, selected |-> {}, todo |-> {},
            attempts |-> [i \in Invoices |-> 0], cur |-> NoValue, stage |-> 0,
            body |-> [ruc |-> NoValue, token |-> NoToken, documento |-> NoValue,
                      tipoArchivo |-> NoValue],
            validAtStart |-> FALSE, authCalls |-> 0, outcome |-> NoValue,
            missing |-> {}, tried |-> {}]

\* the state after installation, in one of the scenarios S: new invoices, no
\* attachment, no token, no run
Start(S) ==
    /\ inv = [i \in Invoices |-> NewInvoice]
    /\ att = [i \in Invoices |-> [k \in {"XML", "PDF", "CDR"} |-> 0]]
    /\ cfg = [token |-> NoToken, token_expiry |-> NoTime]
    /\ now = 0
    /\ run = [r \in Runs |-> IdleRun]
    /\ scn \in S
    /\ streak = [i \in Invoices |-> 0]
    /\ last = NoPass

Init == Start(Scenarios) /\ move = NoMove

InitDownload == Start(DownloadScenarios) /\ move = NoMove

InitConcurrent == Start(ConcurrentScenarios) /\ move = NoMove

InitSame == Start(SameScenarios) /\ move = NoMove

InitRace == Start(RaceScenarios) /\ move = NoMove

InitLive == Start(LiveScenarios) /\ move = NoMove

(***************************************************************************)
(* Operations of the user interface on one invoice.                        *)
(***************************************************************************)
\* no run is executing
Quiet == \A r \in Runs : run[r].pc = "idle"

\* account.move.button_draft of the accounting module: back to draft
button_draft(i) ==
    /\ Quiet
    /\ scn.redraft
    /\ i \in scn.invoices
    /\ inv[i].state = "posted"
    /\ inv' = [inv EXCEPT ![i].state = "draft"]
    /\ last' = NoPass
    /\ UNCHANGED <<att, cfg, now, run, scn, streak, move>>

\* AccountMove.action_post: post the invoice and mark it to_send
action_post(i) ==
    /\ Quiet
    /\ i \in scn.invoices
    /\ inv[i].state = "draft"
    /\ inv' = [inv EXCEPT ![i].state = "posted",
                          ![i].hka_status =
                              IF move_type(i) = "out_invoice" /\ journal_type(i) = "sale"
                              THEN "to_send" ELSE @]
    /\ streak' = [streak EXCEPT ![i] = 0]
    /\ last' = NoPass
    /\ UNCHANGED <<att, cfg, now, run, scn, move>>

\* the clock advances
Tick ==
    /\ now < MaxTime
    /\ now' = now + 1
    /\ UNCHANGED <<inv, att, cfg, run, scn, streak, last, move>>

(***************************************************************************)
(* Selection of the batch passes.                                          *)
(***************************************************************************)
\* _domain_pending_send that takes the rejected invoices as well
_domain_pending_send_all(i) ==
    /\ inv[i].hka_status \in {"to_send", "rejected"}
    /\ move_type(i) = "out_invoice"
    /\ journal_type(i) = "sale"
    /\ inv[i].state = "posted"

_domain_pending_send(i) ==
    /\ inv[i].hka_status = "to_send"
    /\ move_type(i) = "out_invoice"
    /\ journal_type(i) = "sale"
    /\ inv[i].state = "posted"

\* _domain_pending_download without the condition on hka_status
_domain_pending_download_any(i) ==
    /\ move_type(i) = "out_invoice"
    /\ journal_type(i) = "sale"
    /\ inv[i].state = "posted"
    /\ (inv[i].hka_xml_file = FALSE \/ inv[i].hka_pdf_file = FALSE \/ inv[i].hka_cdr_file = FALSE)

_domain_pending_download(i) ==
    /\ inv[i].hka_status = "sent"
    /\ move_type(i) = "out_invoice"
    /\ journal_type(i) = "sale"
    /\ inv[i].state = "posted"
    /\ (inv[i].hka_xml_file = FALSE \/ inv[i].hka_pdf_file = FALSE \/ inv[i].hka_cdr_file = FALSE)

(***************************************************************************)
(* HKAConnector.                                                           *)
(***************************************************************************)
\* HKAConnector.__init__: the connector of company c starts with the persisted token
HKAConnector(c) == [ruc |-> c, user |-> hka_user(c), password |-> hka_password(c),
                    token |-> cfg.token, token_expiry |-> cfg.token_expiry]

\* the answer of shape sh to the credentials of company c: the token names
\* the company and the time of issue, and lives for TokenTTL
AuthResponse(c, sh) ==
    [net |-> sh.net, http |-> sh.http,
     token |-> [st |-> sh.token, val |-> IF sh.token = "ok" THEN <<c, now>> ELSE NoToken],
     fecha |-> [st |-> sh.fecha, val |-> IF sh.fecha = "ok" THEN now + TokenTTL ELSE NoTime]]

\* authenticate with the in-memory token assigned before the answer is parsed
authenticate_eager(conn, config, resp) ==
    LET asis(e) == [exc |-> e, cfg |-> config, token |-> conn.token,
                    token_expiry |-> conn.token_expiry]
        early(e) == [exc |-> e, cfg |-> config, token |-> resp.token.val,
                     token_expiry |-> conn.token_expiry]
    IN  IF resp.net # "ok" THEN asis("ConnectionError")
        ELSE IF resp.http >= 400 THEN asis("HTTPError")
        ELSE IF resp.token.st = "missing" THEN asis("KeyError")
        ELSE IF resp.fecha.st = "missing" THEN early("KeyError")
        ELSE IF resp.fecha.st = "bad" THEN early("ValueError")
        ELSE [exc |-> NoValue,
              cfg |-> [token |-> resp.token.val, token_expiry |-> resp.fecha.val],
              token |-> resp.token.val, token_expiry |-> resp.fecha.val]

\* HKAConnector.authenticate: the exception raised (NoValue when none), the
\* persisted record and the in-memory token and expiry when it returns or raises
authenticate(conn, config, resp) ==
    LET asis(e) == [exc |-> e, cfg |-> config, token |-> conn.token,
                    token_expiry |-> conn.token_expiry]
    IN  IF resp.net # "ok" THEN asis("ConnectionError")
        ELSE IF resp.http >= 400 THEN asis("HTTPError")
        ELSE IF resp.fecha.st = "missing" THEN asis("KeyError")
        ELSE IF resp.fecha.st = "bad" THEN asis("ValueError")
        ELSE IF resp.token.st = "missing" THEN asis("KeyError")
        ELSE [exc |-> NoValue,
              cfg |-> [token |-> resp.token.val, token_expiry |-> resp.fecha.val],
              token |-> resp.token.val, token_expiry |-> resp.fecha.val]

\* _ensure_token that lets the token live through the instant of its expiry
_ensure_token_late(conn) ==
    conn.token = NoToken \/ conn.token_expiry = NoTime \/ now > conn.token_expiry

\* the condition of HKAConnector._ensure_token under which it authenticates
_ensure_token(conn) ==
    conn.token = NoToken \/ conn.token_expiry = NoTime \/ now >= conn.token_expiry

\* a token that is present and not expired (current time < expiry)
TokenValid(conn) ==
    conn.token # NoToken /\ conn.token_expiry # NoTime /\ now < conn.token_expiry

\* the body of the request send_document / download_file posts: ruc and token
\* of the connector, around the document of the call
RequestBody(conn, call) == [call EXCEPT !.ruc = conn.ruc, !.token = conn.token]

\* send_document / download_file up to its first request: authenticate when
\* _ensure_token says so, else post the request itself
CallClient(rr, doc, tipo) ==
    LET call == [ruc |-> NoValue, token |-> NoToken, documento |-> doc, tipoArchivo |-> tipo]
    IN  IF _ensure_token(rr)
        THEN [rr EXCEPT !.pc = "auth", !.validAtStart = TokenValid(rr), !.authCalls = 1,
                        !.outcome = "calling", !.body = call]
        ELSE [rr EXCEPT !.pc = "post", !.validAtStart = TokenValid(rr), !.authCalls = 0,
                        !.outcome = "calling", !.body = RequestBody(rr, call)]

(***************************************************************************)
(* The send pass: AccountMove._cron_send_hka.                              *)
(***************************************************************************)
max_retries == 3

\* AccountMove._attach_file: one more attachment of kind k on the invoice
_attach_file(a, k) == [a EXCEPT ![k] = @ + 1]

\* _handle_retry that gives up one failure late
_handle_retry_late(m, sent) ==
    IF ~sent
    THEN LET m1 == [m EXCEPT !.hka_retry_count = @ + 1]
         IN  IF m1.hka_retry_count > max_retries THEN m1
             ELSE [m1 EXCEPT !.hka_status = "to_send"]
    ELSE [m EXCEPT !.hka_retry_count = 0]

\* AccountMove._handle_retry on the invoice record m
_handle_retry(m, sent) ==
    IF ~sent
    THEN LET m1 == [m EXCEPT !.hka_retry_count = @ + 1]
         IN  IF m1.hka_retry_count >= max_retries THEN m1
             ELSE [m1 EXCEPT !.hka_status = "to_send"]
    ELSE [m EXCEPT !.hka_retry_count = 0]

\* _send_to_hka that marks an accepted document accepted instead of sent
_send_to_hka_accepted(m, a, resp) ==
    IF resp.estatus # "true"
    THEN [exc |-> NoValue, sent |-> FALSE, a |-> a,
          m |-> [m EXCEPT !.hka_status = "rejected", !.hka_error_msg = resp.mensaje]]
    ELSE LET m1 == [m EXCEPT !.hka_status = "accepted",
                             !.hka_cpe_number = resp.numeracion,
                             !.hka_sent_date = now,
                             !.hka_error_msg = NoValue]
         IN  IF resp.xml = "" THEN [exc |-> NoValue, sent |-> TRUE, a |-> a, m |-> m1]
             ELSE IF resp.xml = "not base64"
             THEN [exc |-> "binascii.Error", sent |-> FALSE, a |-> a, m |-> m1]
             ELSE [exc |-> NoValue, sent |-> TRUE, a |-> _attach_file(a, "XML"),
                   m |-> [m1 EXCEPT !.hka_xml_file = TRUE]]

\* _send_to_hka that does not store the message of a rejection
_send_to_hka_nomsg(m, a, resp) ==
    IF resp.estatus # "true"
    THEN [exc |-> NoValue, sent |-> FALSE, a |-> a,
          m |-> [m EXCEPT !.hka_status = "rejected"]]
    ELSE LET m1 == [m EXCEPT !.hka_status = "sent",
                             !.hka_cpe_number = resp.numeracion,
                             !.hka_sent_date = now,
                             !.hka_error_msg = NoValue]
         IN  IF resp.xml = "" THEN [exc |-> NoValue, sent |-> TRUE, a |-> a, m |-> m1]
             ELSE IF resp.xml = "not base64"
             THEN [exc |-> "binascii.Error", sent |-> FALSE, a |-> a, m |-> m1]
             ELSE [exc |-> NoValue, sent |-> TRUE, a |-> _attach_file(a, "XML"),
                   m |-> [m1 EXCEPT !.hka_xml_file = TRUE]]

\* _send_to_hka that writes the XML flag from the answer: set when the XML
\* came along, cleared when it did not
_send_to_hka_flag(m, a, resp) ==
    IF resp.estatus # "true"
    THEN [exc |-> NoValue, sent |-> FALSE, a |-> a,
          m |-> [m EXCEPT !.hka_status = "rejected", !.hka_error_msg = resp.mensaje]]
    ELSE LET m1 == [m EXCEPT !.hka_status = "sent",
                             !.hka_cpe_number = resp.numeracion,
                             !.hka_sent_date = now,
                             !.hka_error_msg = NoValue,
                             !.hka_xml_file = (resp.xml # "")]
         IN  IF resp.xml = "" THEN [exc |-> NoValue, sent |-> TRUE, a |-> a, m |-> m1]
             ELSE IF resp.xml = "not base64"
             THEN [exc |-> "binascii.Error", sent |-> FALSE, a |-> a, m |-> m1]
             ELSE [exc |-> NoValue, sent |-> TRUE, a |-> _attach_file(a, "XML"), m |-> m1]

\* AccountMove._send_to_hka after send_document returned resp, on the invoice
\* record m with attachments a: the exception raised (NoValue when none), the
\* value returned, and the record and attachments as written
_send_to_hka(m, a, resp) ==
    IF resp.estatus # "true"
    THEN [exc |-> NoValue, sent |-> FALSE, a |-> a,
          m |-> [m EXCEPT !.hka_status = "rejected", !.hka_error_msg = resp.mensaje]]
    ELSE LET m1 == [m EXCEPT !.hka_status = "sent",
                             !.hka_cpe_number = resp.numeracion,
                             !.hka_sent_date = now,
                             !.hka_error_msg = NoValue]
         IN  IF resp.xml = "" THEN [exc |-> NoValue, sent |-> TRUE, a |-> a, m |-> m1]
             ELSE IF resp.xml = "not base64"
             THEN [exc |-> "binascii.Error", sent |-> FALSE, a |-> a, m |-> m1]
             ELSE [exc |-> NoValue, sent |-> TRUE, a |-> _attach_file(a, "XML"),
                   m |-> [m1 EXCEPT !.hka_xml_file = TRUE]]

\* the except branch without the count of the failure
CronSendExcept_nocount(m, e) == [m EXCEPT !.hka_error_msg = e]

\* the except branch of _cron_send_hka on the invoice record m
CronSendExcept(m, e) == [m EXCEPT !.hka_error_msg = e, !.hka_retry_count = @ + 1]

\* the invoice record m as it is kept: with its retry count, or where the
\* counts are followed without end, with RetryCap for every count from
\* RetryCap on
Counted(m) ==
    IF scn.counts = "saturating" /\ m.hka_retry_count > RetryCap
    THEN [m EXCEPT !.hka_retry_count = RetryCap]
    ELSE m

\* one iteration of _cron_send_hka after send_document returned or raised:
\* the invoice record, its attachments and what happened
SendIteration(m, a, resp) ==
    IF resp.net # "ok" THEN [m |-> CronSendExcept(m, "ConnectionError"), a |-> a,
                             outcome |-> "exc_transport"]
    ELSE IF resp.http >= 400 THEN [m |-> CronSendExcept(m, "HTTPError"), a |-> a,
                                   outcome |-> "exc_transport"]
    ELSE LET s == _send_to_hka(m, a, resp)
         IN  IF s.exc # NoValue
             THEN [m |-> CronSendExcept(s.m, s.exc), a |-> s.a, outcome |-> "exc_attach"]
             ELSE [m |-> _handle_retry(s.m, s.sent), a |-> s.a,
                   outcome |-> IF s.sent THEN "accepted" ELSE "rejected"]

\* a pass starts: the connector is built and the pending invoices are searched
StartPass(r, c, k) ==
    /\ r \in scn.runs
    /\ c \in scn.companies
    /\ k \in scn.crons
    /\ run[r].pc = "idle"
    /\ LET conn == HKAConnector(c)
           sel == IF k = "send" THEN {i \in Invoices : _domain_pending_send(i)}
                  ELSE {i \in Invoices : _domain_pending_download(i)}
       IN  run' = [run EXCEPT ![r] = [IdleRun EXCEPT !.pc = "loop", !.kind = k,
                                        !.ruc = conn.ruc, !.user = conn.user,
                                        !.password = conn.password, !.token = conn.token,
                                        !.token_expiry = conn.token_expiry,
                                        !.selected = sel, !.todo = sel,
                                        !.missing =
                                            IF k = "send" THEN {}
                                            ELSE {p \in sel \X {"XML", "PDF", "CDR"} :
                                                    ~inv[p[1]][done_field(p[2])]}]]
    /\ UNCHANGED <<inv, att, cfg, now, scn, streak, last, move>>

\* the loop of _cron_send_hka takes the next invoice: builds the payload and
\* calls send_document, up to the first request
BeginSend(r, i, payloadOk) ==
    /\ run[r].pc = "loop"
    /\ run[r].kind = "send"
    /\ i \in run[r].todo
    /\ payloadOk \in scn.payload
    /\ inv[i].hka_retry_count < RetryCap \/ scn.counts = "saturating"
    /\ LET rr == [run[r] EXCEPT !.todo = @ \ {i}, !.attempts[i] = @ + 1, !.cur = i]
       IN  IF payloadOk
           THEN /\ run' = [run EXCEPT ![r] = CallClient(rr, i, NoValue)]
                /\ UNCHANGED inv
                /\ UNCHANGED streak
           ELSE /\ run' = [run EXCEPT ![r] = [rr EXCEPT !.outcome = "exc_payload"]]
                /\ inv' = [inv EXCEPT ![i] = Counted(CronSendExcept(@, "ValueError"))]
                /\ streak' = [streak EXCEPT ![i] = 0]
    /\ UNCHANGED <<att, cfg, now, scn, last, move>>

\* the answer to the send request arrives (or the request fails)
SendReturn(r, resp) ==
    /\ run[r].pc = "post"
    /\ run[r].kind = "send"
    /\ resp \in scn.send
    /\ LET i == run[r].cur
           it == SendIteration(inv[i], att[i], resp)
       IN  /\ it.a["XML"] <= AttachCap
           /\ inv' = [inv EXCEPT ![i] = Counted(it.m)]
           /\ att' = [att EXCEPT ![i] = it.a]
           /\ run' = [run EXCEPT ![r].pc = "loop", ![r].outcome = it.outcome]
           /\ streak' = [streak EXCEPT ![i] =
                            IF it.outcome # "rejected" THEN 0
                            ELSE IF inv[i].hka_retry_count = 0 THEN 1
                            ELSE IF @ > 0 THEN @ + 1 ELSE 0]
    /\ UNCHANGED <<cfg, now, scn, last, move>>

(***************************************************************************)
(* The download pass: AccountMove._cron_download_documents.                *)
(***************************************************************************)
\* the invoice record with the flag of file kind k set
SetFlag(m, k) == IF k = "XML" THEN [m EXCEPT !.hka_xml_file = TRUE]
                 ELSE IF k = "PDF" THEN [m EXCEPT !.hka_pdf_file = TRUE]
                 ELSE [m EXCEPT !.hka_cdr_file = TRUE]

\* _download_and_attach that takes codigo 0 for success, file or no file
_download_and_attach_nocontent(m, a, k, resp) ==
    IF resp.net # "ok" \/ resp.http >= 400
    THEN [m |-> m, a |-> a, outcome |-> "exc_transport"]
    ELSE IF resp.codigo = 0
    THEN IF resp.archivo = "not base64"
         THEN [m |-> m, a |-> a, outcome |-> "exc_attach"]
         ELSE IF resp.archivo = ""
         THEN [m |-> SetFlag(m, k), a |-> a, outcome |-> "stored"]
         ELSE [m |-> SetFlag(m, k), a |-> _attach_file(a, k), outcome |-> "stored"]
    ELSE [m |-> m, a |-> a, outcome |-> "not_stored"]

\* AccountMove._download_and_attach after download_file returned resp or
\* raised, on the invoice record m with attachments a
_download_and_attach(m, a, k, resp) ==
    IF resp.net # "ok" \/ resp.http >= 400
    THEN [m |-> m, a |-> a, outcome |-> "exc_transport"]
    ELSE IF resp.codigo = 0 /\ resp.archivo # ""
    THEN IF resp.archivo = "not base64"
         THEN [m |-> m, a |-> a, outcome |-> "exc_attach"]
         ELSE [m |-> SetFlag(m, k), a |-> _attach_file(a, k), outcome |-> "stored"]
    ELSE [m |-> m, a |-> a, outcome |-> "not_stored"]

\* the loop body of _cron_download_documents that asks again for a file it
\* did not get
FirstMissing_again(m, s) ==
    IF s <= 2 /\ ~m.hka_xml_file THEN 1
    ELSE IF s <= 3 /\ ~m.hka_pdf_file THEN 2
    ELSE IF s <= 4 /\ ~m.hka_cdr_file THEN 3
    ELSE 4

\* the loop body of _cron_download_documents without its third download
FirstMissing_nocdr(m, s) ==
    IF s <= 1 /\ ~m.hka_xml_file THEN 1
    ELSE IF s <= 2 /\ ~m.hka_pdf_file THEN 2
    ELSE 4

\* the first file kind, from position s on, that the loop body of
\* _cron_download_documents downloads for the invoice record m (4: none)
FirstMissing(m, s) ==
    IF s <= 1 /\ ~m.hka_xml_file THEN 1
    ELSE IF s <= 2 /\ ~m.hka_pdf_file THEN 2
    ELSE IF s <= 3 /\ ~m.hka_cdr_file THEN 3
    ELSE 4

\* the loop of _cron_download_documents goes on: with the next missing file
\* kind of the current invoice, else with the next invoice; it calls
\* download_file, up to the first request
BeginDownload(r, i) ==
    /\ run[r].pc = "loop"
    /\ run[r].kind = "download"
    /\ LET more == run[r].cur # NoValue /\ run[r].stage <= 3
           k == IF more THEN run[r].stage ELSE FirstMissing(inv[i], 1)
           rr == IF more THEN run[r]
                 ELSE [run[r] EXCEPT !.todo = @ \ {i}, !.attempts[i] = @ + 1, !.cur = i]
       IN  /\ IF more THEN i = run[r].cur ELSE i \in run[r].todo
           /\ run' = [run EXCEPT ![r] =
                        IF k > 3 THEN [rr EXCEPT !.stage = 4]
                        ELSE CallClient([rr EXCEPT !.stage = k,
                                                   !.tried = @ \cup {<<i, FileKinds[k]>>}],
                                        inv[i].hka_cpe_number, FileKinds[k])]
    /\ UNCHANGED <<inv, att, cfg, now, scn, streak, last, move>>

\* the answer to the download request arrives (or the request fails)
DownloadReturn(r, resp) ==
    /\ run[r].pc = "post"
    /\ run[r].kind = "download"
    /\ resp \in scn.download[FileKinds[run[r].stage]]
    /\ LET i == run[r].cur
           k == FileKinds[run[r].stage]
           d == _download_and_attach(inv[i], att[i], k, resp)
       IN  /\ d.a[k] <= AttachCap
           /\ inv' = [inv EXCEPT ![i] = d.m]
           /\ att' = [att EXCEPT ![i] = d.a]
           /\ run' = [run EXCEPT ![r].pc = "loop", ![r].outcome = d.outcome,
                                 ![r].stage = FirstMissing(d.m, run[r].stage + 1)]
    /\ UNCHANGED <<cfg, now, scn, streak, last, move>>

(***************************************************************************)
(* Both passes.                                                             *)
(***************************************************************************)
\* the answer to the authentication request of _ensure_token arrives (or the
\* request fails): authenticate finishes; send_document / download_file goes
\* on to post its request, or the exception reaches the handler of the pass
AuthReturn(r, sh) ==
    /\ run[r].pc = "auth"
    /\ sh \in scn.auth
    /\ LET i == run[r].cur
           res == authenticate(run[r], cfg, AuthResponse(run[r].ruc, sh))
           rr == [run[r] EXCEPT !.token = res.token, !.token_expiry = res.token_expiry]
       IN  /\ cfg' = res.cfg
           /\ IF res.exc = NoValue
              THEN /\ run' = [run EXCEPT ![r] =
                                [rr EXCEPT !.pc = "post", !.body = RequestBody(rr, rr.body)]]
                   /\ UNCHANGED <<inv, streak>>
              ELSE /\ run' = [run EXCEPT ![r] =
                                [rr EXCEPT !.pc = "loop", !.outcome = "exc_auth",
                                           !.stage = IF rr.kind = "download"
                                                     THEN FirstMissing(inv[i], @ + 1) ELSE @]]
                   /\ inv' = IF rr.kind = "send"
                             THEN [inv EXCEPT ![i] = Counted(CronSendExcept(@, res.exc))]
                             ELSE inv
                   /\ streak' = IF rr.kind = "send" THEN [streak EXCEPT ![i] = 0]
                                ELSE streak
    /\ UNCHANGED <<att, now, scn, last, move>>

\* the loop of the pass is over
EndPass(r) ==
    /\ run[r].pc = "loop"
    /\ run[r].todo = {}
    /\ run[r].kind = "download" => (run[r].cur = NoValue \/ run[r].stage > 3)
    /\ run' = [run EXCEPT ![r] = IdleRun]
    /\ last' = IF Deterministic(scn)
               THEN [kind |-> run[r].kind, inv |-> inv, att |-> att]
               ELSE last
    /\ UNCHANGED <<inv, att, cfg, now, scn, streak, move>>

Next ==
    \/ \E i \in Invoices : action_post(i)
    \/ \E i \in Invoices : button_draft(i)
    \/ Tick
    \/ \E r \in Runs, c \in Companies, k \in {"send", "download"} : StartPass(r, c, k)
    \/ \E r \in Runs, i \in Invoices, ok \in BOOLEAN : BeginSend(r, i, ok)
    \/ \E r \in Runs, sh \in AuthShapes : AuthReturn(r, sh)
    \/ \E r \in Runs, resp \in SendResponses : SendReturn(r, resp)
    \/ \E r \in Runs, i \in Invoices : BeginDownload(r, i)
    \/ \E r \in Runs, resp \in DownloadResponses : DownloadReturn(r, resp)
    \/ \E r \in Runs : EndPass(r)

Spec == Init /\ [][Next]_vars

SpecDownload == InitDownload /\ [][Next]_vars

SpecConcurrent == InitConcurrent /\ [][Next]_vars

SpecSame == InitSame /\ [][Next]_vars

SpecRace == InitRace /\ [][Next]_vars

\* the scheduler invokes the send job again and again, whatever else runs in
\* between (strong fairness of its start); a pass that runs goes on: its loop
\* takes the next invoice and ends, and every request it waits for is
\* answered or fails
Fairness ==
    \A r \in Runs :
        /\ SF_vars(\E c \in Companies : StartPass(r, c, "send"))
        /\ WF_vars(\E i \in Invoices, ok \in BOOLEAN : BeginSend(r, i, ok))
        /\ WF_vars(\E sh \in AuthShapes : AuthReturn(r, sh))
        /\ WF_vars(\E resp \in SendResponses : SendReturn(r, resp))
        /\ WF_vars(\E i \in Invoices : BeginDownload(r, i))
        /\ WF_vars(\E resp \in DownloadResponses : DownloadReturn(r, resp))
        /\ WF_vars(EndPass(r))

SpecLive == InitLive /\ [][Next]_vars /\ Fairness

(***************************************************************************)
(* The payload: AccountMove._prepare_hka_payload and its sections.         *)
(* Amounts are floats in the program; here an amount with two decimals is  *)
(* its number of cents, and any other amount is a number of cents and a    *)
(* number of hundredths of a cent, which holds the product of an amount in *)
(* cents and a whole percentage exactly.  A formatted number is the        *)
(* sequence of its characters.                                             *)
(***************************************************************************)
MaxBuilds == 2      \* the payload of an invoice is built at most this many times

\* a Python str holding a formatted number, and a Python float (in hundredths)
Str(chars) == [py |-> "str", val |-> chars]
Float(v) == [py |-> "float", val |-> v]

DigitChars == <<"0", "1", "2", "3", "4", "5", "6", "7", "8", "9">>

\* str(n) of a natural number n
RECURSIVE NatStr(_)
NatStr(n) == IF n < 10 THEN <<DigitChars[n + 1]>>
             ELSE NatStr(n \div 10) \o <<DigitChars[(n % 10) + 1]>>

\* the amount of c cents, and v * pct / 100 for an amount of v cents
Exact(c) == [cents |-> c, frac |-> 0]
Percent(v, pct) ==
    [cents |-> (v \div 100) * pct + ((v % 100) * pct) \div 100,
     frac |-> ((v % 100) * pct) % 100]

\* round(x, 2), in cents: half a cent goes where the binary value of the
\* float lies (tie: "up" or "down")
round(x, tie) ==
    IF x.frac > 50 \/ (x.frac = 50 /\ tie = "up") THEN x.cents + 1 ELSE x.cents

\* f"{x:.2f}"
Fmt2(x, tie) ==
    LET c == round(x, tie)
        a == IF c < 0 THEN -c ELSE c
    IN  (IF x.cents < 0 THEN <<"-">> ELSE <<>>) \o NatStr(a \div 100) \o <<".">>
            \o <<DigitChars[((a % 100) \div 10) + 1], DigitChars[(a % 10) + 1]>>

\* strftime("%H:%M:%S") of the time t, counted in seconds since midnight
TwoDigits(n) == <<DigitChars[((n \div 10) % 10) + 1], DigitChars[(n % 10) + 1]>>
HMS(t) == TwoDigits(t \div 3600) \o <<":">> \o TwoDigits((t \div 60) % 60) \o <<":">>
              \o TwoDigits(t % 60)

\* _compute_total_detraction that cuts the amount off after two decimals
_compute_total_detraction_trunc(m) ==
    IF m.l10n_pe_edi_detraction_type_id # <<>>
    THEN Percent(m.amount_total, m.l10n_pe_edi_detraction_type_id[1].rate).cents
    ELSE 0

\* AccountMove._compute_total_detraction: l10n_pe_edi_total_detraction of m
_compute_total_detraction(m) ==
    IF m.l10n_pe_edi_detraction_type_id # <<>>
    THEN round(Percent(m.amount_total, m.l10n_pe_edi_detraction_type_id[1].rate), m.tie)
    ELSE 0

\* AccountMove._prepare_hka_header at time t; the name of the invoice is kept
\* as its two parts around the first "-"
_prepare_hka_header(m, t) ==
    [fechaEmision |-> m.invoice_date,
     fechaVencimiento |-> m.invoice_date_due,
     horaEmision |-> HMS(t),
     tipoDocumento |-> m.l10n_latam_document_type_id_code,
     serie |-> m.name[1],
     correlativo |-> m.name[2],
     codigoTipoOperacion |-> IF m.l10n_pe_edi_operation_type_code = NoValue THEN "0101"
                             ELSE m.l10n_pe_edi_operation_type_code]

\* AccountMove._prepare_hka_emisor
_prepare_hka_emisor(m) ==
    [ruc |-> IF m.company_id.vat = NoValue THEN "" ELSE m.company_id.vat,
     nombreComercial |-> m.company_id.name,
     lugarExpedicion |-> "0000",
     codigoPais |-> m.company_id.country_code]

\* AccountMove._prepare_hka_receptor
_prepare_hka_receptor(m) ==
    [tipoDocumento |-> m.partner_id.l10n_pe_vat_code,
     numDocumento |-> IF m.partner_id.vat = NoValue THEN "" ELSE m.partner_id.vat,
     razonSocial |-> m.partner_id.name,
     notificar |-> "NO"]

\* one entry of AccountMove._prepare_hka_items: line number idx of the invoice
HkaItem(line, idx, tie) ==
    LET igv == SelectSeq(line.tax_ids, LAMBDA amount : amount # 0)
        igv_pct == IF igv # <<>> THEN igv[1] ELSE 0
        base == line.price_subtotal
        monto_igv == Percent(base, igv_pct)
    IN  [numeroOrden |-> NatStr(idx),
         descripcion |-> line.name,
         cantidad |-> NatStr(line.quantity),
         unidadMedida |-> line.uom_code,
         valorUnitarioBI |-> Str(Fmt2(Exact(line.price_unit), tie)),
         valorVentaItemQxBI |-> Str(Fmt2(Exact(base), tie)),
         precioVentaUnitarioItem |-> Str(Fmt2(Exact(line.price_total), tie)),
         montoTotalImpuestoItem |-> Str(Fmt2(monto_igv, tie)),
         IGV |-> [baseImponible |-> Str(Fmt2(Exact(base), tie)),
                  porcentaje |-> Str(Fmt2(Exact(igv_pct * 100), tie)),
                  monto |-> Str(Fmt2(monto_igv, tie)),
                  tipo |-> "10"]]

\* AccountMove._prepare_hka_items
_prepare_hka_items(m) ==
    [idx \in 1..Len(m.invoice_line_ids) |-> HkaItem(m.invoice_line_ids[idx], idx, m.tie)]

\* AccountMove._prepare_hka_totals
_prepare_hka_totals(m) ==
    [importeTotalPagar |-> Str(Fmt2(Exact(m.amount_total), m.tie)),
     importeTotalVenta |-> Str(Fmt2(Exact(m.amount_total), m.tie)),
     montoTotalImpuestos |-> Str(Fmt2(Exact(m.amount_tax), m.tie)),
     subtotalValorVenta |-> Str(Fmt2(Exact(m.amount_untaxed), m.tie)),
     totalIGV |-> Str(Fmt2(Exact(m.amount_tax), m.tie)),
     subtotal |-> [IGV |-> Str(Fmt2(Exact(m.amount_untaxed), m.tie))]]

\* AccountMove._prepare_hka_payment
_prepare_hka_payment(m) ==
    [fechaInicio |-> m.invoice_date, fechaFin |-> m.invoice_date,
     moneda |-> m.currency, tipoCambio |-> Float(375)]

\* AccountMove._prepare_hka_information: the paragraphs of the narration that
\* hold a colon, as title and value
_prepare_hka_information(m) ==
    LET ps == SelectSeq(m.narration, LAMBDA par : par.colon)
    IN  [n \in 1..Len(ps) |-> [seccion |-> "1", titulo |-> ps[n].titulo,
                               valor |-> ps[n].valor]]

\* AccountMove._prepare_hka_detraction
_prepare_hka_detraction(m) ==
    <<[codigo |-> m.l10n_pe_edi_detraction_type_id[1].code,
       medioPago |-> m.l10n_pe_edi_detraction_payment_type_code,
       monto |-> Str(Fmt2(Exact(_compute_total_detraction(m)), m.tie)),
       numCuentaBancodelaNacion |-> m.l10n_pe_edi_detraction_bank_account,
       porcentaje |-> Float(m.l10n_pe_edi_detraction_type_id[1].rate * 100)]>>

\* lines.sorted(lambda l: l.days): a stable sort by the days of the lines
RECURSIVE sorted(_)
sorted(lines) ==
    IF lines = <<>> THEN <<>>
    ELSE LET x == Head(lines)
             rest == sorted(Tail(lines))
             before == SelectSeq(rest, LAMBDA y : y.days < x.days)
             after == SelectSeq(rest, LAMBDA y : y.days >= x.days)
         IN  before \o <<x>> \o after

\* the loop of _prepare_hka_payment_method that gives the balance line the
\* whole net amount
RECURSIVE Allocate_whole(_, _, _, _)
Allocate_whole(lines, net_amount, total_allocated, tie) ==
    IF lines = <<>> THEN <<>>
    ELSE LET line == Head(lines)
             amount == IF line.value = "balance" THEN net_amount
                       ELSE IF line.value = "percent"
                       THEN round(Percent(net_amount, line.value_amount), tie)
                       ELSE IF line.value = "fixed" THEN round(line.value_amount, tie)
                       ELSE 0
         IN  <<amount>> \o Allocate_whole(Tail(lines), net_amount,
                                          total_allocated + amount, tie)

\* the loop of _prepare_hka_payment_method over the sorted lines: the amount
\* of each due, given what the dues before it were allocated
RECURSIVE Allocate(_, _, _, _)
Allocate(lines, net_amount, total_allocated, tie) ==
    IF lines = <<>> THEN <<>>
    ELSE LET line == Head(lines)
             amount == IF line.value = "balance" THEN net_amount - total_allocated
                       ELSE IF line.value = "percent"
                       THEN round(Percent(net_amount, line.value_amount), tie)
                       ELSE IF line.value = "fixed" THEN round(line.value_amount, tie)
                       ELSE 0
         IN  <<amount>> \o Allocate(Tail(lines), net_amount, total_allocated + amount, tie)

\* f"Cuota{idx:03}"
Cuota(idx) == <<"Cuota", DigitChars[((idx \div 100) % 10) + 1]>> \o TwoDigits(idx)

\* is_credit of _prepare_hka_payment_method: a payment term other than the
\* immediate one
is_credit(m) ==
    /\ m.invoice_payment_term_id # <<>>
    /\ m.invoice_payment_term_id[1].id # "account.account_payment_term_immediate"

\* net_amount of _prepare_hka_payment_method
net_amount(m) == m.amount_total - _compute_total_detraction(m)

\* AccountMove._prepare_hka_payment_method; the key cuotasFactura is <<>> when
\* absent and the list of dues in a one-element sequence when present
_prepare_hka_payment_method(m) ==
    LET lines == sorted(m.invoice_payment_term_id[1].line_ids)
        amounts == Allocate(lines, net_amount(m), 0, m.tie)
        dues == [idx \in 1..Len(lines) |->
                    [fechaPagoCuota |-> [date |-> m.invoice_date,
                                         months |-> lines[idx].months,
                                         days |-> lines[idx].days],
                     identificadorCuota |-> Cuota(idx),
                     montoPagoCuota |-> Str(Fmt2(Exact(amounts[idx]), m.tie))]]
    IN  [modoPago |-> IF is_credit(m) THEN "Credito" ELSE "Contado",
         montoNetoPendiente |-> IF is_credit(m) THEN Str(Fmt2(Exact(net_amount(m)), m.tie))
                                ELSE Str(<<"0">>),
         cuotasFactura |-> IF is_credit(m) THEN <<dues>> ELSE <<>>]

\* AccountMove._prepare_hka_payload at time t; an optional key is <<>> when
\* absent and its value in a one-element sequence when present
_prepare_hka_payload(m, t) ==
    _prepare_hka_header(m, t) @@
    [emisor |-> _prepare_hka_emisor(m),
     receptor |-> _prepare_hka_receptor(m),
     facturaNegociable |-> _prepare_hka_payment_method(m),
     producto |-> _prepare_hka_items(m),
     totales |-> _prepare_hka_totals(m),
     pago |-> _prepare_hka_payment(m),
     personalizacionPDF |-> IF m.narration # <<>> THEN <<_prepare_hka_information(m)>>
                            ELSE <<>>,
     detraccion |-> IF m.l10n_pe_edi_detraction_type_id # <<>>
                    THEN <<_prepare_hka_detraction(m)>> ELSE <<>>]

\* the amounts of the invoices explored, in cents: nothing, 100.00, 1000.00,
\* 10.15, a negative 100.00 and 1234567.89, with 18% IGV inside
Amounts ==
    {[amount_untaxed |-> 0, amount_tax |-> 0, amount_total |-> 0],
     [amount_untaxed |-> 8475, amount_tax |-> 1525, amount_total |-> 10000],
     [amount_untaxed |-> 84746, amount_tax |-> 15254, amount_total |-> 100000],
     [amount_untaxed |-> 860, amount_tax |-> 155, amount_total |-> 1015],
     [amount_untaxed |-> -8475, amount_tax |-> -1525, amount_total |-> -10000],
     [amount_untaxed |-> 104624397, amount_tax |-> 18832392, amount_total |-> 123456789]}

\* a line of a payment term
TermLine(value, value_amount, months, days) ==
    [value |-> value, value_amount |-> value_amount, months |-> months, days |-> days]

\* the payment terms explored (<<>>: none): the immediate one, and credit
\* terms with percent, fixed and balance lines, in and out of the order of
\* their days
PaymentTerms ==
    {<<>>,
     <<[id |-> "account.account_payment_term_immediate", line_ids |-> <<>>]>>,
     <<[id |-> "30/70", line_ids |-> <<TermLine("percent", 30, 0, 0),
                                       TermLine("percent", 70, 0, 30)>>]>>,
     <<[id |-> "40+balance", line_ids |-> <<TermLine("fixed", Exact(4000), 0, 15),
                                            TermLine("balance", 0, 0, 30)>>]>>,
     <<[id |-> "balance listed first", line_ids |-> <<TermLine("balance", 0, 1, 45),
                                                      TermLine("percent", 33, 0, 15),
                                                      TermLine("percent", 33, 0, 15)>>]>>,
     <<[id |-> "balance first", line_ids |-> <<TermLine("balance", 0, 0, 0),
                                               TermLine("percent", 25, 0, 30)>>]>>}

\* the detraction types explored (<<>>: none), with their rates
DetractionTypes == {<<>>, <<[code |-> "037", rate |-> 4]>>, <<[code |-> "019", rate |-> 10]>>}

\* the narrations explored, by paragraph (<<>>: none)
Narrations ==
    {<<>>, <<[colon |-> TRUE, titulo |-> "Ref", valor |-> "ABC123"],
             [colon |-> FALSE, titulo |-> "No colon here", valor |-> ""]>>}

\* the invoices whose payload is built
Moves ==
    {[name |-> <<"F001", "1">>,
      invoice_date |-> "2025-01-15", invoice_date_due |-> "2025-02-14",
      l10n_latam_document_type_id_code |-> "01",
      l10n_pe_edi_operation_type_code |-> IF d = <<>> THEN NoValue ELSE "1001",
      company_id |-> [vat |-> "RUC_A", name |-> "Emisor SAC", country_code |-> "PE"],
      partner_id |-> [vat |-> "20100000001", name |-> "Cliente SA", l10n_pe_vat_code |-> "6"],
      currency |-> "PEN",
      amount_untaxed |-> a.amount_untaxed, amount_tax |-> a.amount_tax,
      amount_total |-> a.amount_total,
      invoice_line_ids |-> <<[name |-> "Servicio", quantity |-> 1, uom_code |-> "ZZ",
                              price_unit |-> a.amount_untaxed,
                              price_subtotal |-> a.amount_untaxed,
                              price_total |-> a.amount_total,
                              tax_ids |-> IF a.amount_tax = 0 THEN <<0>> ELSE <<0, 18>>]>>,
      invoice_payment_term_id |-> pt,
      l10n_pe_edi_detraction_type_id |-> d,
      l10n_pe_edi_detraction_payment_type_code |-> "001",
      l10n_pe_edi_detraction_bank_account |-> "00-000-000000",
      narration |-> n,
      tie |-> tie,
      payloads |-> <<>>] :
        a \in Amounts, pt \in PaymentTerms, d \in DetractionTypes, n \in Narrations,
        tie \in {"down", "up"}}

\* an invoice is there, with no payload built from it yet
InitPayload ==
    /\ Start({Database({"F001-1"}, {"RUC_A"}, FALSE, {"send"}, {"run1"})})
    /\ move \in Moves

\* _prepare_hka_payload is called on the invoice, at the current time
PreparePayload ==
    /\ Len(move.payloads) < MaxBuilds
    /\ move' = [move EXCEPT !.payloads = Append(@, _prepare_hka_payload(move, now))]
    /\ UNCHANGED <<inv, att, cfg, now, run, scn, streak, last>>

NextPayload ==
    \/ PreparePayload
    \/ Tick

SpecPayload == InitPayload /\ [][NextPayload]_vars

(***************************************************************************)
(* Properties.                                                             *)
(***************************************************************************)
\* run r issues the send request for invoice i in this step
SendIssued(r, i) ==
    /\ run[r].pc # "post"
    /\ run'[r].pc = "post"
    /\ run'[r].kind = "send"
    /\ run'[r].cur = i

\* the answer of the Enviar endpoint is an acceptance (estatus true)
Accepted(resp) == resp.net = "ok" /\ resp.http \in 200..299 /\ resp.estatus = "true"

\* an answer of the Autenticacion endpoint of this shape makes authenticate fail
AuthFails(sh) ==
    \/ sh.net # "ok"
    \/ sh.http \notin 200..299
    \/ sh.token # "ok"
    \/ sh.fecha # "ok"

\* run r handles an exception of the invoice it processes in this step of a send pass
ExcStep(r) ==
    /\ run'[r] # run[r]
    /\ run'[r].kind = "send"
    /\ run'[r].outcome \in {"exc_payload", "exc_auth", "exc_transport", "exc_attach"}

\* C1: three remote rejections in a row of an invoice that was to_send with
\* retry count 0 leave it rejected with retry count 3, and from then on no
\* send request is issued for it (until it is posted again)
C1_RetryPolicy ==
    [][\A i \in Invoices :
        /\ streak'[i] = 3 =>
              inv'[i].hka_retry_count = 3 /\ inv'[i].hka_status = "rejected"
        /\ streak[i] = 3 => \A r \in Runs : ~SendIssued(r, i)]_vars

\* C1 witness: a send pass runs after the third rejection and has not selected the invoice
C1_Witness ==
    \E i \in Invoices, r \in Runs :
        /\ streak[i] = 3
        /\ inv[i].state = "posted"
        /\ run[r].pc = "loop"
        /\ run[r].kind = "send"
        /\ i \notin run[r].selected

\* C2 (as claimed): an invoice with retry count >= 3 is rejected, and no send
\* request is in flight for an invoice whose retry count is >= 3
C2_Claim ==
    \A i \in Invoices :
        /\ inv[i].hka_retry_count >= 3 => inv[i].hka_status = "rejected"
        /\ \A r \in Runs :
              run[r].pc = "post" /\ run[r].kind = "send" /\ run[r].cur = i
                  => inv[i].hka_retry_count < 3

\* C3 (as claimed): the retry count grows only by a failed send attempt, and
\* an invoice whose document the remote accepts leaves the step with retry count 0
C3_Claim ==
    [][/\ \A i \in Invoices :
              inv'[i].hka_retry_count > inv[i].hka_retry_count =>
                  \E r \in Runs :
                      /\ run'[r].cur = i
                      /\ run'[r].outcome \in {"rejected", "exc_payload", "exc_auth",
                                              "exc_transport"}
       /\ \A r \in Runs : \A resp \in SendResponses :
              Accepted(resp) /\ SendReturn(r, resp) =>
                  inv'[run[r].cur].hka_retry_count = 0]_vars

\* C4: a step of a pass changes hka_status only from to_send to sent, from
\* to_send to rejected, or from rejected to to_send with retry count < 3
C4_StatusTransitions ==
    [][(~Quiet \/ ~Quiet') =>
        \A i \in Invoices :
            LET a == inv[i].hka_status
                b == inv'[i].hka_status
            IN  \/ a = b
                \/ a = "to_send" /\ b = "sent"
                \/ a = "to_send" /\ b = "rejected"
                \/ a = "rejected" /\ b = "to_send" /\ inv'[i].hka_retry_count < 3]_vars

\* C4 witness: a download pass has stored a file of a sent invoice
C4_Witness ==
    \E r \in Runs :
        /\ run[r].kind = "download"
        /\ run[r].outcome = "stored"
        /\ inv[run[r].cur].hka_status = "sent"

\* C5 (as claimed): no step changes the hka_status of a sent invoice
C5_Claim ==
    [][\A i \in Invoices :
        inv[i].hka_status = "sent" => inv'[i].hka_status = "sent"]_vars

\* C6 (as claimed): an accepted send of a to_send invoice leaves it sent, with
\* the answered numeracion, a sent date, no error message and retry count 0;
\* the XML flag is set and an XML attachment stored exactly if xml came along
C6_Claim ==
    [][\A r \in Runs : \A resp \in SendResponses :
        (/\ Accepted(resp)
         /\ SendReturn(r, resp)
         /\ inv[run[r].cur].hka_status = "to_send") =>
            LET i == run[r].cur
            IN  /\ inv'[i].hka_status = "sent"
                /\ inv'[i].hka_cpe_number = resp.numeracion
                /\ inv'[i].hka_sent_date # NoTime
                /\ inv'[i].hka_error_msg = NoValue
                /\ inv'[i].hka_retry_count = 0
                /\ (inv'[i].hka_xml_file /\ att'[i]["XML"] = att[i]["XML"] + 1)
                       <=> (resp.xml # "")]_vars

\* C7: a send_document call that starts with a valid token makes no
\* authenticate call; one that starts without a valid token makes exactly one,
\* and its send request is issued after it, with the token it obtained
C7_TokenReuse ==
    \A r \in Runs :
        run[r].kind = "send" =>
            /\ run[r].authCalls <= 1
            /\ run[r].pc = "auth" => ~run[r].validAtStart /\ run[r].authCalls = 1
            /\ run[r].pc = "post" =>
                  /\ run[r].authCalls = (IF run[r].validAtStart THEN 0 ELSE 1)
                  /\ run[r].body.token # NoToken
                  /\ run[r].body.token = cfg.token

\* C7 witness: the second send request of a pass is in flight, issued with
\* the still valid token and without a new authenticate call
C7_Witness ==
    \E r \in Runs :
        /\ run[r].kind = "send"
        /\ run[r].pc = "post"
        /\ run[r].validAtStart
        /\ run[r].authCalls = 0
        /\ Cardinality({i \in Invoices : run[r].attempts[i] = 1}) = 2

\* C8 (as claimed): the token of a request in flight was obtained with the
\* credentials of the company the request is issued for
C8_Claim ==
    \A r \in Runs :
        run[r].pc = "post" => run[r].body.token[1] = run[r].body.ruc

\* C9: when authenticate fails, the persisted and the in-memory token and
\* expiry are unchanged, the exception reaches the handler of the pass (for a
\* send it is recorded on the invoice) and the request is not issued
C9_AuthFailure ==
    [][\A r \in Runs :
        run[r].pc = "auth" =>
            \A sh \in AuthShapes :
                AuthFails(sh) /\ AuthReturn(r, sh) =>
                    /\ cfg' = cfg
                    /\ run'[r].token = run[r].token
                    /\ run'[r].token_expiry = run[r].token_expiry
                    /\ run'[r].pc = "loop"
                    /\ run'[r].outcome = "exc_auth"
                    /\ run[r].kind = "send" =>
                          inv'[run[r].cur].hka_error_msg # NoValue]_vars

\* C9 witness: a renewal of the token failed during a send pass and the old
\* token is still persisted
C9_Witness ==
    \E r \in Runs :
        /\ run[r].kind = "send"
        /\ run[r].outcome = "exc_auth"
        /\ cfg.token # NoToken
        /\ run[r].token = cfg.token

\* C10: an exception while a send pass processes an invoice sets its error
\* message, adds exactly 1 to its retry count and leaves the pass in its
\* loop; and when the pass ends every selected invoice was attempted once
C10_BatchContinues ==
    [][\A r \in Runs :
        /\ ExcStep(r) =>
              LET i == run'[r].cur
              IN  /\ inv'[i].hka_error_msg # NoValue
                  /\ inv'[i].hka_retry_count = inv[i].hka_retry_count + 1
                  /\ \A j \in Invoices \ {i} : inv'[j] = inv[j]
                  /\ run'[r].pc = "loop"
                  /\ run'[r].todo = run[r].selected \
                                        {j \in Invoices : run'[r].attempts[j] > 0}
        /\ (run[r].kind = "send" /\ run[r].pc = "loop" /\ run'[r].pc = "idle") =>
              \A i \in run[r].selected : run[r].attempts[i] = 1]_vars

\* C10 witness: a pass over two invoices is at its end; the first invoice
\* failed with a connection error, the second was sent after it
C10_Witness ==
    \E r \in Runs : \E i, j \in run[r].selected :
        /\ i # j
        /\ run[r].kind = "send"
        /\ run[r].pc = "loop"
        /\ run[r].todo = {}
        /\ inv[i].hka_error_msg = "ConnectionError"
        /\ inv[i].hka_retry_count = 1
        /\ run[r].cur = j
        /\ run[r].outcome = "accepted"

\* the answer of the Enviar endpoint is a rejection (estatus false-like)
Rejected(resp) == resp.net = "ok" /\ resp.http \in 200..299 /\ resp.estatus # "true"

\* C19: a rejection of the send of a to_send invoice stores the message of
\* the answer, adds exactly 1 to the retry count, leaves the invoice to_send
\* if the new count is below 3 and rejected otherwise, and changes neither
\* its number, its sent date, its file flags nor its attachments
C19_RejectionFrame ==
    [][\A r \in Runs : \A resp \in SendResponses :
        (/\ Rejected(resp)
         /\ SendReturn(r, resp)
         /\ inv[run[r].cur].hka_status = "to_send") =>
            LET i == run[r].cur
            IN  /\ inv'[i].hka_error_msg = resp.mensaje
                /\ inv'[i].hka_retry_count = inv[i].hka_retry_count + 1
                /\ inv'[i].hka_status =
                       (IF inv'[i].hka_retry_count < 3 THEN "to_send" ELSE "rejected")
                /\ inv'[i].hka_cpe_number = inv[i].hka_cpe_number
                /\ inv'[i].hka_sent_date = inv[i].hka_sent_date
                /\ inv'[i].hka_xml_file = inv[i].hka_xml_file
                /\ inv'[i].hka_pdf_file = inv[i].hka_pdf_file
                /\ inv'[i].hka_cdr_file = inv[i].hka_cdr_file
                /\ att'[i] = att[i]]_vars

\* C19 witness: an invoice that was sent before, with its number and its XML
\* file, was posted again and its send has just been rejected with a message
C19_Witness ==
    \E r \in Runs :
        /\ run[r].kind = "send"
        /\ run[r].outcome = "rejected"
        /\ inv[run[r].cur].hka_cpe_number # NoValue
        /\ inv[run[r].cur].hka_xml_file
        /\ inv[run[r].cur].hka_error_msg = "rechazado"
        /\ inv[run[r].cur].hka_status = "to_send"
        /\ inv[run[r].cur].hka_retry_count = 1

\* the file flags of an invoice record
FileFlags == {"hka_xml_file", "hka_pdf_file", "hka_cdr_file"}

\* C12: a file flag that is set is never cleared, and a step that sets a file
\* flag leaves the invoice with hka_status sent
C12_FlagsMonotonic ==
    [][\A i \in Invoices : \A f \in FileFlags :
        /\ inv[i][f] => inv'[i][f]
        /\ (~inv[i][f] /\ inv'[i][f]) => inv'[i].hka_status = "sent"]_vars

\* C12 witness: an invoice whose XML and PDF files were stored was reset to
\* draft and posted again: it is to_send and its flags are still set
C12_Witness ==
    \E i \in Invoices :
        /\ inv[i].hka_status = "to_send"
        /\ inv[i].hka_xml_file
        /\ inv[i].hka_pdf_file
        /\ att[i]["PDF"] > 0

\* run r calls download_file for file kind k of invoice i in this step
DownloadTried(r, i, k) == <<i, k>> \in run'[r].tried \ run[r].tried

\* C11: a download pass calls download_file only for a file kind of a
\* selected invoice whose flag is not set, at most once for each, and when
\* the pass ends it has done so for every file kind that was missing on a
\* selected invoice, whatever happened to the other downloads
C11_DownloadAttempts ==
    [][\A r \in Runs :
        /\ \A i \in Invoices : \A k \in {"XML", "PDF", "CDR"} :
              DownloadTried(r, i, k) =>
                  /\ i \in run[r].selected
                  /\ ~inv[i][done_field(k)]
                  /\ <<i, k>> \in run[r].missing
        /\ (run[r].kind = "download" /\ run[r].pc = "loop" /\ run'[r].pc = "idle") =>
              run[r].tried = run[r].missing]_vars

\* C11 witness: a download pass over two invoices is at its end; for the
\* first invoice the XML download failed, its PDF was stored after that, and
\* the files of the second invoice were downloaded after that
C11_Witness ==
    \E r \in Runs : \E i, j \in run[r].selected :
        /\ i # j
        /\ run[r].kind = "download"
        /\ run[r].pc = "loop"
        /\ run[r].todo = {}
        /\ run[r].cur = j
        /\ run[r].stage > 3
        /\ {<<i, "XML">>, <<i, "PDF">>, <<i, "CDR">>} \subseteq run[r].missing
        /\ ~inv[i].hka_xml_file
        /\ inv[i].hka_pdf_file
        /\ ~inv[i].hka_cdr_file
        /\ inv[j].hka_pdf_file
        /\ inv[j].hka_cdr_file

\* the connector of run r lacks the user, the password or the tax id
Unconfigured(rr) ==
    rr.pc # "idle" /\ (rr.user = NoValue \/ rr.password = NoValue \/ rr.ruc = NoValue)

\* C14 (as claimed): a pass of a company without user, password or tax id
\* issues no request (authenticate, send or download) and adds nothing to
\* the retry count of any invoice
C14_Claim ==
    [][\A r \in Runs :
        Unconfigured(run'[r]) =>
            /\ run'[r].pc \notin {"auth", "post"}
            /\ \A i \in Invoices :
                  inv'[i].hka_retry_count = inv[i].hka_retry_count]_vars

\* C20 (as claimed): of the runs of one company at most one has an
\* authenticate request in flight
C20_Claim ==
    \A r1, r2 \in Runs :
        (r1 # r2 /\ run[r1].pc = "auth" /\ run[r2].pc = "auth")
            => run[r1].ruc # run[r2].ruc

\* the integration state of an invoice: record m with attachments a
Integration(m, a) ==
    [hka_status |-> m.hka_status, hka_retry_count |-> m.hka_retry_count,
     hka_cpe_number |-> m.hka_cpe_number, hka_error_msg |-> m.hka_error_msg,
     hka_xml_file |-> m.hka_xml_file, hka_pdf_file |-> m.hka_pdf_file,
     hka_cdr_file |-> m.hka_cdr_file, attachments |-> a]

\* the pass of run r ends in this step, and it was invoked right after a pass
\* of the same kind had ended, in a world that answers the same way
SecondPassEnds(r) ==
    /\ run[r].pc = "loop"
    /\ run'[r].pc = "idle"
    /\ last # NoPass
    /\ last.kind = run[r].kind

\* C13 (as claimed): the second of two passes of the same kind leaves the
\* integration state of every invoice as the first pass left it
C13_Claim ==
    [][\A r \in Runs :
        SecondPassEnds(r) =>
            \A i \in Invoices :
                Integration(inv[i], att[i]) = Integration(last.inv[i], last.att[i])]_vars

\* C13 (amended): the second of two download passes leaves the integration
\* state of every invoice as the first left it; the second of two send passes
\* does so for every invoice the first did not leave pending, and on an
\* invoice the first left pending it counts one more failure: the retry count
\* grows by 1, the status is to_send or rejected, and the number, the file
\* flags and the attachments are as the first pass left them
C13_Idempotence ==
    [][\A r \in Runs :
        SecondPassEnds(r) =>
            \A i \in Invoices :
                IF /\ run[r].kind = "send"
                   /\ last.inv[i].hka_status = "to_send"
                   /\ last.inv[i].state = "posted"
                THEN /\ inv[i].hka_retry_count = last.inv[i].hka_retry_count + 1
                     /\ inv[i].hka_status \in {"to_send", "rejected"}
                     /\ inv[i].hka_cpe_number = last.inv[i].hka_cpe_number
                     /\ inv[i].hka_xml_file = last.inv[i].hka_xml_file
                     /\ inv[i].hka_pdf_file = last.inv[i].hka_pdf_file
                     /\ inv[i].hka_cdr_file = last.inv[i].hka_cdr_file
                     /\ att[i] = last.att[i]
                ELSE Integration(inv[i], att[i]) = Integration(last.inv[i], last.att[i])]_vars

\* C13 witness: the second of two download passes is at its end: the first
\* had stored the PDF and not the XML, the second has asked for the XML again
C13_Witness ==
    \E r \in Runs : \E i \in run[r].selected :
        /\ run[r].kind = "download"
        /\ last.kind = "download"
        /\ run[r].pc = "loop"
        /\ run[r].cur = i
        /\ run[r].stage > 3
        /\ last.inv[i].hka_pdf_file
        /\ last.att[i]["XML"] = 0
        /\ <<i, "XML">> \in run[r].tried

\* the characters of x are those of a number with exactly two digits after
\* the decimal point: an optional "-", digits, ".", two digits
IsDigit(ch) == \E d \in 1..10 : DigitChars[d] = ch
TwoDecimals(x) ==
    /\ x.py = "str"
    /\ LET str == x.val
           n == Len(str)
           first == IF n > 0 /\ str[1] = "-" THEN 2 ELSE 1
       IN  /\ n - 3 >= first
           /\ str[n - 2] = "."
           /\ \A k \in (first..(n - 3)) \cup {n - 1, n} : IsDigit(str[k])

\* the number of cents that a number with two decimals reads as
DigitVal(ch) == CHOOSE d \in 0..9 : DigitChars[d + 1] = ch
RECURSIVE ParseNat(_)
ParseNat(str) == IF str = <<>> THEN 0
                 ELSE ParseNat(SubSeq(str, 1, Len(str) - 1)) * 10 + DigitVal(str[Len(str)])
ParseCents(x) ==
    LET str == x.val
        n == Len(str)
        neg == str[1] = "-"
        whole == ParseNat(SubSeq(str, IF neg THEN 2 ELSE 1, n - 3))
        cents == whole * 100 + ParseNat(SubSeq(str, n - 1, n))
    IN  IF neg THEN -cents ELSE cents

\* the sum of a sequence of numbers
RECURSIVE Sum(_)
Sum(seq) == IF seq = <<>> THEN 0 ELSE Head(seq) + Sum(Tail(seq))

\* the payloads built so far
Payloads == {move.payloads[n] : n \in 1..Len(move.payloads)}

\* C15 (as claimed): the payloads built from an invoice at any two moments
\* are equal in every field
C15_Claim == \A p, q \in Payloads : p = q

\* C17: the detraction amount in the payload is grand total * rate / 100
\* rounded to 2 decimals, and there is none (amount 0) without a detraction
\* type; for a credit term montoNetoPendiente is the grand total minus that
\* amount, and the percent dues are allocated from it; rate 4 on 1000.00
\* gives 40.00 and 960.00
C17_Detraction ==
    \A p \in Payloads :
        LET type == move.l10n_pe_edi_detraction_type_id
            total == move.amount_total
            detraction == IF type = <<>> THEN 0 ELSE ParseCents(p.detraccion[1][1].monto)
            lines == sorted(move.invoice_payment_term_id[1].line_ids)
            dues == p.facturaNegociable.cuotasFactura[1]
        IN  /\ _compute_total_detraction(move) = detraction
            /\ type = <<>> => p.detraccion = <<>>
            /\ type # <<>> => detraction = round(Percent(total, type[1].rate), move.tie)
            /\ (type # <<>> /\ type[1].rate = 4 /\ total = 100000) => detraction = 4000
            /\ p.facturaNegociable.modoPago = "Credito" =>
                  /\ ParseCents(p.facturaNegociable.montoNetoPendiente) = total - detraction
                  /\ \A k \in 1..Len(dues) :
                        lines[k].value = "percent" =>
                            ParseCents(dues[k].montoPagoCuota) =
                                round(Percent(total - detraction, lines[k].value_amount),
                                      move.tie)

\* C17 witness: the payload of an invoice of 1000.00 with detraction rate 4
\* and a credit term: detraction 40.00, net amount 960.00
C17_Witness ==
    \E p \in Payloads :
        /\ move.amount_total = 100000
        /\ p.detraccion # <<>>
        /\ p.detraccion[1][1].monto.val = <<"4", "0", ".", "0", "0">>
        /\ p.facturaNegociable.montoNetoPendiente.val = <<"9", "6", "0", ".", "0", "0">>

\* the amounts of the dues 1..k of a payload, in cents
DueCents(dues, k) == [n \in 1..k |-> ParseCents(dues[n].montoPagoCuota)]

\* C16: for a credit term the dues come in ascending order of the days of
\* their lines and are numbered Cuota001, Cuota002, ...; the amount of a due
\* is net * percentage / 100 rounded to 2 decimals for a percent line, the
\* fixed amount for a fixed line, and the net amount minus the amounts of the
\* dues before it for a balance line; [percent 30, percent 70] on 100.00
\* gives 30.00 and 70.00, [fixed 40, balance] gives 40.00 and 60.00, and when
\* the balance line comes last the dues add up to the net amount
C16_Installments ==
    \A p \in Payloads :
        p.facturaNegociable.modoPago = "Credito" =>
            LET term == move.invoice_payment_term_id[1]
                lines == sorted(term.line_ids)
                dues == p.facturaNegociable.cuotasFactura[1]
                net == move.amount_total
                           - (IF p.detraccion = <<>> THEN 0
                              ELSE ParseCents(p.detraccion[1][1].monto))
                cents == DueCents(dues, Len(dues))
            IN  /\ Len(dues) = Len(term.line_ids)
                /\ \A k \in 1..Len(dues) :
                      /\ \E n \in 1..Len(term.line_ids) :
                            /\ term.line_ids[n].days = dues[k].fechaPagoCuota.days
                            /\ term.line_ids[n].months = dues[k].fechaPagoCuota.months
                      /\ k > 1 => dues[k - 1].fechaPagoCuota.days <= dues[k].fechaPagoCuota.days
                      /\ dues[k].identificadorCuota = <<"Cuota", "0", "0", DigitChars[k + 1]>>
                      /\ lines[k].value = "percent" =>
                            cents[k] = round(Percent(net, lines[k].value_amount), move.tie)
                      /\ lines[k].value = "fixed" =>
                            Exact(cents[k]) = lines[k].value_amount
                      /\ lines[k].value = "balance" =>
                            cents[k] = net - Sum(DueCents(dues, k - 1))
                /\ (term.id = "30/70" /\ net = 10000) => cents = <<3000, 7000>>
                /\ (term.id = "40+balance" /\ net = 10000) => cents = <<4000, 6000>>
                /\ (lines # <<>> /\ lines[Len(lines)].value = "balance") => Sum(cents) = net

\* C16 witness: the payload of an invoice with net amount 960.00 whose term
\* lists the balance line first and two lines of 33 percent after it: the
\* dues are 316.80, 316.80 and, last, the balance of 326.40
C16_Witness ==
    \E p \in Payloads :
        /\ move.invoice_payment_term_id # <<>>
        /\ move.invoice_payment_term_id[1].id = "balance listed first"
        /\ p.facturaNegociable.montoNetoPendiente.val = <<"9", "6", "0", ".", "0", "0">>
        /\ DueCents(p.facturaNegociable.cuotasFactura[1], 3) = <<31680, 31680, 32640>>

\* the monetary and percentage fields of a payload
MoneyFields(p) ==
    UNION {{p.producto[n].valorUnitarioBI, p.producto[n].valorVentaItemQxBI,
            p.producto[n].precioVentaUnitarioItem, p.producto[n].montoTotalImpuestoItem,
            p.producto[n].IGV.baseImponible, p.producto[n].IGV.porcentaje,
            p.producto[n].IGV.monto} : n \in 1..Len(p.producto)}
    \cup {p.totales.importeTotalPagar, p.totales.importeTotalVenta,
          p.totales.montoTotalImpuestos, p.totales.subtotalValorVenta,
          p.totales.totalIGV, p.totales.subtotal.IGV}
    \cup {p.facturaNegociable.montoNetoPendiente}
    \cup (IF p.facturaNegociable.cuotasFactura = <<>> THEN {}
          ELSE {p.facturaNegociable.cuotasFactura[1][n].montoPagoCuota :
                    n \in 1..Len(p.facturaNegociable.cuotasFactura[1])})
    \cup (IF p.detraccion = <<>> THEN {}
          ELSE {p.detraccion[1][1].monto, p.detraccion[1][1].porcentaje})

\* C18 (as claimed): every monetary or percentage field of a payload is a
\* string with exactly two digits after the decimal point
C18_Claim == \A p \in Payloads : \A x \in MoneyFields(p) : TwoDecimals(x)

\* the answer of the DescargaArchivo endpoint has codigo 0 and a file that decodes
Stored(resp) ==
    /\ resp.net = "ok"
    /\ resp.http \in 200..299
    /\ resp.codigo = 0
    /\ resp.archivo = "base64"

\* C21: a step of a download pass sets a file flag only when the answer for
\* that invoice and file kind has codigo 0 and a file, and the decoded file
\* was stored as one more attachment of that kind; the step changes nothing
\* else, and on any other answer or on an exception (of the download or of
\* the authentication before it) it changes no invoice field and no attachment
C21_DownloadOutcome ==
    [][\A r \in Runs :
        (run[r].kind = "download" /\ run'[r] # run[r]) =>
            LET i == run[r].cur
                k == FileKinds[run[r].stage]
                success == /\ run[r].pc = "post"
                           /\ \E resp \in DownloadResponses :
                                 Stored(resp) /\ DownloadReturn(r, resp)
            IN  IF success
                THEN /\ inv' = [inv EXCEPT ![i][done_field(k)] = TRUE]
                     /\ att' = [att EXCEPT ![i][k] = @ + 1]
                ELSE /\ inv' = inv
                     /\ att' = att]_vars

\* C21 witness: in a download pass the XML download of a sent invoice failed
\* and left nothing, and the PDF download after it stored the file
C21_Witness ==
    \E r \in Runs :
        LET i == run[r].cur
        IN  /\ run[r].kind = "download"
            /\ run[r].outcome = "stored"
            /\ <<i, "XML">> \in run[r].tried
            /\ ~inv[i].hka_xml_file
            /\ att[i]["XML"] = 0
            /\ inv[i].hka_pdf_file
            /\ att[i]["PDF"] = 1

\* run r starts a pass of kind k in this step
PassStarts(r, k) == run[r].pc = "idle" /\ run'[r].pc = "loop" /\ run'[r].kind = k

\* run r issues the download request for invoice i in this step
DownloadIssued(r, i) ==
    /\ run[r].pc # "post"
    /\ run'[r].pc = "post"
    /\ run'[r].kind = "download"
    /\ run'[r].cur = i

\* C22: a send pass selects only posted customer invoices of a sale journal
\* whose hka_status is to_send, and issues send requests only for invoices
\* it selected; a download pass selects only invoices whose hka_status is
\* sent, and issues download requests only for invoices it selected, whose
\* hka_status is sent when the request is issued
C22_Selection ==
    [][\A r \in Runs : \A i \in Invoices :
        /\ (PassStarts(r, "send") /\ i \in run'[r].selected) =>
              /\ inv[i].hka_status = "to_send"
              /\ inv[i].state = "posted"
              /\ move_type(i) = "out_invoice"
              /\ journal_type(i) = "sale"
        /\ (PassStarts(r, "download") /\ i \in run'[r].selected) =>
              inv[i].hka_status = "sent"
        /\ SendIssued(r, i) => i \in run'[r].selected
        /\ DownloadIssued(r, i) =>
              i \in run'[r].selected /\ inv[i].hka_status = "sent"]_vars

\* C22 witness: a send pass runs over a database whose only invoice is
\* rejected with three failures: it selected nothing; and the invoice has
\* files missing, which a download pass would look for if it were sent
C22_Witness ==
    \E r \in Runs, i \in Invoices :
        /\ run[r].pc = "loop"
        /\ run[r].kind = "send"
        /\ run[r].selected = {}
        /\ inv[i].state = "posted"
        /\ inv[i].hka_status = "rejected"
        /\ inv[i].hka_retry_count = 3
        /\ ~inv[i].hka_pdf_file

\* run r calls send_document or download_file in this step
CallBegins(r) == run[r].pc = "loop" /\ run'[r].pc \in {"auth", "post"}

\* C23: a send pass calls send_document at most once for an invoice, also
\* when the retry policy has put the invoice back to to_send; a download
\* pass calls download_file at most once for an invoice and file kind; and a
\* call issues at most one authenticate request and then at most one request
\* of its own, after which it is over
C23_NoInCallRetry ==
    [][\A r \in Runs :
        /\ (CallBegins(r) /\ run'[r].kind = "send") =>
              run[r].attempts[run'[r].cur] = 0
        /\ (CallBegins(r) /\ run'[r].kind = "download") =>
              <<run'[r].cur, FileKinds[run'[r].stage]>> \notin run[r].tried
        /\ run'[r].authCalls <= 1
        /\ (run[r].pc = "auth" /\ run'[r] # run[r]) =>
              /\ run'[r].pc \in {"post", "loop"}
              /\ run'[r].authCalls = 1
        /\ (run[r].pc = "post" /\ run'[r] # run[r]) => run'[r].pc = "loop"
        /\ \A i \in Invoices : run'[r].attempts[i] <= 1]_vars

\* C23 witness: a send pass is at its end; the send of its invoice was
\* rejected and the retry policy has put the invoice back to to_send
C23_Witness ==
    \E r \in Runs :
        LET i == run[r].cur
        IN  /\ run[r].kind = "send"
            /\ run[r].pc = "loop"
            /\ run[r].todo = {}
            /\ run[r].outcome = "rejected"
            /\ run[r].attempts[i] = 1
            /\ inv[i].hka_status = "to_send"
            /\ inv[i].hka_retry_count = 1

\* C24 (as claimed): no send request is issued for an invoice whose document
\* the remote service has accepted before (the acceptance wrote status sent
\* and the sent date, and the sent date is never cleared)
C24_Claim ==
    [][\A r \in Runs : \A i \in Invoices :
        SendIssued(r, i) => inv[i].hka_sent_date = NoTime]_vars

\* C25 (as claimed): a send or download request carries, when it is issued,
\* the token that is persisted in the configuration record
C25_Claim ==
    [][\A r \in Runs :
        (run[r].pc # "post" /\ run'[r].pc = "post") =>
            run'[r].body.token = cfg'.token]_vars

\* C26 (as claimed): an invoice has at most one attachment of each file
\* kind, and the flag of a file kind is set exactly when an attachment of
\* that kind is stored
C26_Claim ==
    \A i \in Invoices : \A k \in {"XML", "PDF", "CDR"} :
        /\ att[i][k] <= 1
        /\ inv[i][done_field(k)] <=> att[i][k] > 0

\* the invoice is out of the pending set of the send pass as the claim has
\* it end: sent, or rejected with the retries used up
Settled(i) ==
    \/ inv[i].hka_status = "sent"
    \/ inv[i].hka_status = "rejected" /\ inv[i].hka_retry_count >= 3

\* C27 (as claimed): where no user resets invoices to draft and the send pass
\* is invoked again and again, an invoice that is pending for the send pass
\* is eventually sent, or rejected with retry count >= 3
C27_Claim ==
    \A i \in Invoices :
        (~scn.redraft /\ _domain_pending_send(i)) ~> Settled(i)

====
